---- MODULE Spec2Model ----
(***************************************************************************)
(* The request helper of the thirdweb SDK (utils/fetch.ts):                *)
(*   getClientFetch / fetchWithHeaders, isThirdwebUrl and its LRU cache,   *)
(*   isPayUrl, getPlatformHeaders, parseOs and getTWAuthToken.             *)
(*                                                                         *)
(* JavaScript strings are atomic values for TLC, so every string that the  *)
(* code inspects character by character (startsWith, endsWith,             *)
(* toLowerCase, replace, template concatenation) is spelled out in Chars,  *)
(* and the string operations work on the spelling.                         *)
(***************************************************************************)
EXTENDS Integers, Sequences, FiniteSets, TLC

VARIABLES
  env,               \* the runtime: NODE_ENV, navigator OS, Application id, platform
  TW_AUTH_TOKEN,     \* globalThis.TW_AUTH_TOKEN
  cache,             \* IS_THIRDWEB_URL_CACHE, least recently used entry first
  previousPlatform,  \* memo of getPlatformHeaders
  req,               \* the calls of fetchWithHeaders, by call
  now,               \* the clock setTimeout reads, in ms
  ret,               \* what the last call of isThirdwebUrl did and returned
  recent             \* the cached URLs in the order they were last classified

vars == <<env, TW_AUTH_TOKEN, cache, previousPlatform, req, now, ret, recent>>

(***************************************************************************)
(* Strings                                                                 *)
(***************************************************************************)
Chars ==
  "api.thirdweb.com" :> <<"a","p","i",".","t","h","i","r","d","w","e","b",".","c","o","m">> @@
  "pay.thirdweb.com" :> <<"p","a","y",".","t","h","i","r","d","w","e","b",".","c","o","m">> @@
  "pay.example.com" :> <<"p","a","y",".","e","x","a","m","p","l","e",".","c","o","m">> @@
  "example.com" :> <<"e","x","a","m","p","l","e",".","c","o","m">> @@
  "evilthirdweb.com" :> <<"e","v","i","l","t","h","i","r","d","w","e","b",".","c","o","m">> @@
  "otherthirdweb.com" :> <<"o","t","h","e","r","t","h","i","r","d","w","e","b",".","c","o","m">> @@
  "localhost" :> <<"l","o","c","a","l","h","o","s","t">> @@
  "gateway.ipfscdn.io" :> <<"g","a","t","e","w","a","y",".","i","p","f","s","c","d","n",".","i","o">> @@
  "rpc.thirdweb.dev" :> <<"r","p","c",".","t","h","i","r","d","w","e","b",".","d","e","v">> @@
  "embedded-wallet.thirdweb-dev.com" :> <<"e","m","b","e","d","d","e","d","-","w","a","l","l","e","t",".","t","h","i","r","d","w","e","b","-","d","e","v",".","c","o","m">> @@
  "thirdweb.com" :> <<"t","h","i","r","d","w","e","b",".","c","o","m">> @@
  ".thirdweb.com" :> <<".","t","h","i","r","d","w","e","b",".","c","o","m">> @@
  ".ipfscdn.io" :> <<".","i","p","f","s","c","d","n",".","i","o">> @@
  ".thirdweb.dev" :> <<".","t","h","i","r","d","w","e","b",".","d","e","v">> @@
  ".thirdweb-dev.com" :> <<".","t","h","i","r","d","w","e","b","-","d","e","v",".","c","o","m">> @@
  "ipfscdn.io" :> <<"i","p","f","s","c","d","n",".","i","o">> @@
  "thirdweb.dev" :> <<"t","h","i","r","d","w","e","b",".","d","e","v">> @@
  "thirdweb-dev.com" :> <<"t","h","i","r","d","w","e","b","-","d","e","v",".","c","o","m">> @@
  "pay." :> <<"p","a","y",".">> @@
  "pay" :> <<"p","a","y">> @@
  "win" :> <<"w","i","n">> @@
  "Authorization" :> <<"A","u","t","h","o","r","i","z","a","t","i","o","n">> @@
  "authorization" :> <<"a","u","t","h","o","r","i","z","a","t","i","o","n">> @@
  "X-Custom" :> <<"X","-","C","u","s","t","o","m">> @@
  "x-custom" :> <<"x","-","c","u","s","t","o","m">> @@
  "X-Client-Id" :> <<"X","-","C","l","i","e","n","t","-","I","d">> @@
  "x-client-id" :> <<"x","-","c","l","i","e","n","t","-","i","d">> @@
  "x-secret-key" :> <<"x","-","s","e","c","r","e","t","-","k","e","y">> @@
  "X-SDK-Name" :> <<"X","-","S","D","K","-","N","a","m","e">> @@
  "x-sdk-name" :> <<"x","-","s","d","k","-","n","a","m","e">> @@
  "Bearer " :> <<"B","e","a","r","e","r"," ">> @@
  "tok" :> <<"t","o","k">> @@
  "Bearer tok" :> <<"B","e","a","r","e","r"," ","t","o","k">> @@
  "tok2" :> <<"t","o","k","2">> @@
  "Bearer tok2" :> <<"B","e","a","r","e","r"," ","t","o","k","2">> @@
  "c1" :> <<"c","1">> @@
  "c2" :> <<"c","2">> @@
  ", " :> <<","," ">> @@
  "c1, c2" :> <<"c","1",","," ","c","2">> @@
  "bad name" :> <<"b","a","d"," ","n","a","m","e">> @@
  "Mac OS" :> <<"M","a","c"," ","O","S">> @@
  "iOS" :> <<"i","O","S">> @@
  "Android OS" :> <<"A","n","d","r","o","i","d"," ","O","S">> @@
  "Windows 10" :> <<"W","i","n","d","o","w","s"," ","1","0">> @@
  "Chrome OS" :> <<"C","h","r","o","m","e"," ","O","S">> @@
  "mac os" :> <<"m","a","c"," ","o","s">> @@
  "ios" :> <<"i","o","s">> @@
  "android os" :> <<"a","n","d","r","o","i","d"," ","o","s">> @@
  "windows 10" :> <<"w","i","n","d","o","w","s"," ","1","0">> @@
  "chrome_os" :> <<"c","h","r","o","m","e","_","o","s">>

\* the string spelled cs
Str(cs) == CHOOSE s \in DOMAIN Chars : Chars[s] = cs

LowerChar(c) ==
  CASE c = "A" -> "a" [] c = "B" -> "b" [] c = "C" -> "c" [] c = "D" -> "d"
    [] c = "E" -> "e" [] c = "F" -> "f" [] c = "G" -> "g" [] c = "H" -> "h"
    [] c = "I" -> "i" [] c = "J" -> "j" [] c = "K" -> "k" [] c = "L" -> "l"
    [] c = "M" -> "m" [] c = "N" -> "n" [] c = "O" -> "o" [] c = "P" -> "p"
    [] c = "Q" -> "q" [] c = "R" -> "r" [] c = "S" -> "s" [] c = "T" -> "t"
    [] c = "U" -> "u" [] c = "V" -> "v" [] c = "W" -> "w" [] c = "X" -> "x"
    [] c = "Y" -> "y" [] c = "Z" -> "z" [] OTHER -> c

\* String.prototype.toLowerCase, on a spelling
toLowerCase(cs) == [i \in 1..Len(cs) |-> LowerChar(cs[i])]

\* String.prototype.replace(/\s/gi, "_"), on a spelling
replaceSpaces(cs) == [i \in 1..Len(cs) |-> IF cs[i] = " " THEN "_" ELSE cs[i]]

\* String.prototype.startsWith / endsWith, on spellings
startsWith(cs, prefix) ==
  /\ Len(prefix) <= Len(cs)
  /\ SubSeq(cs, 1, Len(prefix)) = prefix

endsWith(cs, suffix) ==
  /\ Len(suffix) <= Len(cs)
  /\ SubSeq(cs, Len(cs) - Len(suffix) + 1, Len(cs)) = suffix

(***************************************************************************)
(* URLs.  new URL(url) is the platform's parser: the model gives its       *)
(* result for each URL string it uses.  A string outside DOMAIN Hostname   *)
(* makes new URL throw.                                                    *)
(***************************************************************************)
U_API   == "https://api.thirdweb.com/v1/chains"
U_UPPER == "HTTPS://API.THIRDWEB.COM/v1/chains"
U_PAY   == "https://pay.thirdweb.com/buy-with-crypto/quote"
U_PAYX  == "https://pay.example.com/checkout"
U_EX    == "https://example.com/api"
U_EVIL  == "https://evilthirdweb.com/"
U_OTHER == "https://otherthirdweb.com/"
U_APEX  == "https://thirdweb.com/"
U_LOCAL == "http://localhost:3000/api"
U_IPFS  == "https://gateway.ipfscdn.io/ipfs/Qm"
U_DEV   == "https://rpc.thirdweb.dev/1"
U_DEV2  == "https://embedded-wallet.thirdweb-dev.com/"
U_BAD   == "not a url"

Hostname ==
  U_API :> "api.thirdweb.com" @@ U_UPPER :> "api.thirdweb.com" @@
  U_PAY :> "pay.thirdweb.com" @@ U_PAYX :> "pay.example.com" @@
  U_EX :> "example.com" @@ U_EVIL :> "evilthirdweb.com" @@
  U_OTHER :> "otherthirdweb.com" @@ U_APEX :> "thirdweb.com" @@
  U_LOCAL :> "localhost" @@ U_IPFS :> "gateway.ipfscdn.io" @@
  U_DEV :> "rpc.thirdweb.dev" @@ U_DEV2 :> "embedded-wallet.thirdweb-dev.com"

Urls == DOMAIN Hostname \cup {U_BAD}

\* new URL(url): ok = FALSE when it throws
ParseURL(url) ==
  IF url \in DOMAIN Hostname
    THEN [ok |-> TRUE, hostname |-> Hostname[url]]
    ELSE [ok |-> FALSE, hostname |-> ""]

(***************************************************************************)
(* LruMap (utils/caching/lru.ts).  The map is a sequence of entries, the   *)
(* least recently used first.                                              *)
(***************************************************************************)
\* the capacity given to new LruMap: 4096 in the code, scaled down here
CacheCapacity == 2

Keys(c) == {c[i].key : i \in 1..Len(c)}

IndexOf(c, k) == CHOOSE i \in 1..Len(c) : c[i].key = k

Without(c, k) == SelectSeq(c, LAMBDA e : e.key # k)

LruHas(c, k) == k \in Keys(c)

LruValue(c, k) == c[IndexOf(c, k)].value

\* get: the entry becomes the most recently used
LruGet(c, k) == Append(Without(c, k), [key |-> k, value |-> LruValue(c, k)])

\* set: the entry becomes the most recently used; beyond the capacity the
\* least recently used entry is dropped
LruSet(c, k, v) ==
  LET put == Append(Without(c, k), [key |-> k, value |-> v])
  IN IF Len(put) > CacheCapacity THEN Tail(put) ELSE put

(***************************************************************************)
(* isThirdwebUrl                                                           *)
(***************************************************************************)
\* the suffixes without their dots
THIRDWEB_DOMAINS_NoDot == {"thirdweb.com", "ipfscdn.io", "thirdweb.dev", "thirdweb-dev.com"}

THIRDWEB_DOMAINS == {".thirdweb.com", ".ipfscdn.io", ".thirdweb.dev", ".thirdweb-dev.com"}

\* the value of NODE_ENV where reading process.env throws
NoProcess == "<no process>"

\* lines 103-106; reading process.env where there is no process throws, and
\* the inner try swallows it
IsDevOrTest(nodeEnv) == nodeEnv = "development" \/ nodeEnv = "test"

\* lines 99-116 on a hostname
ClassifyHostname(nodeEnv, hostname) ==
  IF IsDevOrTest(nodeEnv) /\ hostname = "localhost"
    THEN TRUE
    ELSE \E domain \in THIRDWEB_DOMAINS : endsWith(Chars[hostname], Chars[domain])

\* the verdict of a malformed URL is returned but not cached
isThirdwebUrl_FailureNotCached(c, nodeEnv, url) ==
  IF LruHas(c, url)
    THEN [value |-> LruValue(c, url), cache |-> LruGet(c, url), parsed |-> FALSE]
    ELSE LET u == ParseURL(url)
         IN IF u.ok
              THEN LET is == ClassifyHostname(nodeEnv, u.hostname)
                   IN [value |-> is, cache |-> LruSet(c, url, is), parsed |-> TRUE]
              ELSE [value |-> FALSE, cache |-> c, parsed |-> TRUE]

\* a cached verdict is read without get, so the entry is not used
isThirdwebUrl_HitNotUsed(c, nodeEnv, url) ==
  IF LruHas(c, url)
    THEN [value |-> LruValue(c, url), cache |-> c, parsed |-> FALSE]
    ELSE LET u == ParseURL(url)
             is == IF u.ok THEN ClassifyHostname(nodeEnv, u.hostname) ELSE FALSE
         IN [value |-> is, cache |-> LruSet(c, url, is), parsed |-> TRUE]

\* isThirdwebUrl(url) on cache c: the value returned, the cache it leaves,
\* and whether it ran new URL
isThirdwebUrl(c, nodeEnv, url) ==
  IF LruHas(c, url)
    THEN [value |-> LruValue(c, url), cache |-> LruGet(c, url), parsed |-> FALSE]
    ELSE LET u == ParseURL(url)
             is == IF u.ok THEN ClassifyHostname(nodeEnv, u.hostname) ELSE FALSE
         IN [value |-> is, cache |-> LruSet(c, url, is), parsed |-> TRUE]

\* lines 123-131
isPayUrl(url) ==
  LET u == ParseURL(url)
  IN IF u.ok THEN startsWith(Chars[u.hostname], Chars["pay."]) ELSE FALSE

(***************************************************************************)
(* Optional values: <<>> is undefined/null, <<v>> is the value v.          *)
(***************************************************************************)
Undefined == <<>>
Some(v) == <<v>>

\* JavaScript truthiness of an optional string: undefined and "" are falsy
TruthyStr(o) == o # Undefined /\ o[1] # ""

(***************************************************************************)
(* getTWAuthToken.  The global is absent, or holds a value of some type.   *)
(***************************************************************************)
NoGlobal == [in |-> FALSE, type |-> "undefined", value |-> ""]

Globals ==
  { NoGlobal,
    [in |-> TRUE,  type |-> "number",    value |-> "42"],
    [in |-> TRUE,  type |-> "string",    value |-> ""],
    [in |-> TRUE,  type |-> "string",    value |-> "tok"] }

getTWAuthToken(g) ==
  IF g.in /\ g.type = "string" THEN Some(g.value) ELSE Undefined

(***************************************************************************)
(* getPlatformHeaders and parseOs                                          *)
(***************************************************************************)
SDK_NAME == "unified-sdk"
version == "<version>"

\* the runtimes the model runs in: execution mode, the OS detectOS finds in
\* navigator.userAgent (Undefined without navigator), the applicationId of
\* globalThis.Application (Undefined without it), and detectPlatform()
Envs ==
  { [NODE_ENV |-> "production",  os |-> Some("Mac OS"),     bundleId |-> Undefined, platform |-> "browser"],
    [NODE_ENV |-> "development", os |-> Undefined,          bundleId |-> Undefined, platform |-> "node"],
    [NODE_ENV |-> "test",        os |-> Some("Windows 10"), bundleId |-> Undefined, platform |-> "browser"],
    [NODE_ENV |-> NoProcess,     os |-> Some("Chrome OS"),  bundleId |-> Some("com.example.app"), platform |-> "mobile"] }

parseOs(os) ==
  LET osLowerCased == toLowerCase(Chars[os])
  IN IF startsWith(osLowerCased, Chars["win"]) THEN "win"
     ELSE CASE os = "Mac OS" -> "mac"
            [] os = "iOS" -> "ios"
            [] os = "Android OS" -> "android"
            [] OTHER -> Str(replaceSpaces(osLowerCased))

\* getPlatformHeaders() with memo prev in runtime e: the pairs returned and
\* the memo it leaves
getPlatformHeaders(prev, e) ==
  IF prev # Undefined
    THEN [pairs |-> prev[1], previousPlatform |-> prev]
    ELSE LET pairs ==
               << <<"x-sdk-platform", e.platform>>,
                  <<"x-sdk-version", version>>,
                  <<"x-sdk-os", IF e.os # Undefined THEN parseOs(e.os[1]) ELSE "unknown">>,
                  <<"x-sdk-name", SDK_NAME>> >>
               \o (IF TruthyStr(e.bundleId) THEN << <<"x-bundle-id", e.bundleId[1]>> >> ELSE << >>)
         IN [pairs |-> pairs, previousPlatform |-> Some(pairs)]

(***************************************************************************)
(* Headers.  def = FALSE is the undefined of line 27; kv maps the header   *)
(* names (lower case, as Headers keeps them) to their values.              *)
(***************************************************************************)
NoHeaders == [def |-> FALSE, kv |-> << >>]
EmptyHeaders == [def |-> TRUE, kv |-> << >>]

\* Headers.prototype.set with a lower-case name
HeadersSet(h, name, value) ==
  [def |-> TRUE,
   kv |-> [n \in DOMAIN h.kv \cup {name} |-> IF n = name THEN value ELSE h.kv[n]]]

\* Headers.prototype.append: the name is lower-cased, a second value of the
\* same name is joined with ", "
HeadersAppend(h, name, value) ==
  LET lower == Str(toLowerCase(Chars[name]))
  IN IF lower \in DOMAIN h.kv
       THEN HeadersSet(h, lower, Str(Chars[h.kv[lower]] \o Chars[", "] \o Chars[value]))
       ELSE HeadersSet(h, lower, value)

RECURSIVE AppendAll(_, _)
AppendAll(h, pairs) ==
  IF pairs = << >> THEN h
  ELSE AppendAll(HeadersAppend(h, pairs[1][1], pairs[1][2]), Tail(pairs))

\* new Headers(init) for the pairs of a HeadersInit
NewHeaders(pairs) == AppendAll(EmptyHeaders, pairs)

\* the characters of a header name (an HTTP token); the backquote is one
\* too, and is in no name used here
TokenChars ==
  {"a","b","c","d","e","f","g","h","i","j","k","l","m",
   "n","o","p","q","r","s","t","u","v","w","x","y","z",
   "A","B","C","D","E","F","G","H","I","J","K","L","M",
   "N","O","P","Q","R","S","T","U","V","W","X","Y","Z",
   "0","1","2","3","4","5","6","7","8","9",
   "!","#","$","%","&","'","*","+","-",".","^","_","|","~"}

IsToken(name) ==
  /\ Len(Chars[name]) > 0
  /\ \A i \in 1..Len(Chars[name]) : Chars[name][i] \in TokenChars

\* line 27: new Headers(restInit.headers) throws a TypeError on a name that
\* is not a token
HeadersInitThrows(initHeaders) ==
  /\ initHeaders # Undefined
  /\ \E i \in 1..Len(initHeaders[1]) : ~IsToken(initHeaders[1][i][1])

RECURSIVE SetAll(_, _)
SetAll(h, pairs) ==
  IF pairs = << >> THEN h
  ELSE SetAll(HeadersSet(h, pairs[1][1], pairs[1][2]), Tail(pairs))

Names(pairs) == {pairs[i][1] : i \in 1..Len(pairs)}

(***************************************************************************)
(* fetchWithHeaders: the headers (lines 27-55)                             *)
(***************************************************************************)
\* `Bearer ${authToken}`
Bearer(token) == Str(Chars["Bearer "] \o Chars[token])

\* the token is used on pay URLs too
CredentialHeader_NoPayCheck(url, client, authToken) ==
  IF TruthyStr(authToken)
    THEN << <<"authorization", Bearer(authToken[1])>> >>
  ELSE IF TruthyStr(client.secretKey)
    THEN << <<"x-secret-key", client.secretKey[1]>> >>
  ELSE IF TruthyStr(client.clientId)
    THEN << <<"x-client-id", client.clientId[1]>> >>
  ELSE << >>

\* the client id is sent along with the secret key
CredentialHeader_Both(url, client, authToken) ==
  IF TruthyStr(authToken) /\ ~isPayUrl(url)
    THEN << <<"authorization", Bearer(authToken[1])>> >>
  ELSE (IF TruthyStr(client.secretKey)
          THEN << <<"x-secret-key", client.secretKey[1]>> >> ELSE << >>)
       \o (IF TruthyStr(client.clientId)
          THEN << <<"x-client-id", client.clientId[1]>> >> ELSE << >>)

\* the secret key is preferred to the token
CredentialHeader_KeyFirst(url, client, authToken) ==
  IF TruthyStr(client.secretKey)
    THEN << <<"x-secret-key", client.secretKey[1]>> >>
  ELSE IF TruthyStr(authToken) /\ ~isPayUrl(url)
    THEN << <<"authorization", Bearer(authToken[1])>> >>
  ELSE IF TruthyStr(client.clientId)
    THEN << <<"x-client-id", client.clientId[1]>> >>
  ELSE << >>

\* lines 37-43: the credential header set for a first-party URL
CredentialHeader(url, client, authToken) ==
  IF TruthyStr(authToken) /\ ~isPayUrl(url)
    THEN << <<"authorization", Bearer(authToken[1])>> >>
  ELSE IF TruthyStr(client.secretKey)
    THEN << <<"x-secret-key", client.secretKey[1]>> >>
  ELSE IF TruthyStr(client.clientId)
    THEN << <<"x-client-id", client.clientId[1]>> >>
  ELSE << >>

\* lines 45-50
EcosystemHeaders(ecosystem) ==
  IF ecosystem # Undefined
    THEN << <<"x-ecosystem-id", ecosystem[1].id>> >>
         \o (IF TruthyStr(ecosystem[1].partnerId)
               THEN << <<"x-ecosystem-partner-id", ecosystem[1].partnerId[1]>> >>
               ELSE << >>)
    ELSE << >>

\* every request is decorated, first-party or not
ComposeHeaders_Always(isFirstParty, url, initHeaders, client, ecosystem, authToken, platform) ==
  LET headers == IF initHeaders # Undefined THEN NewHeaders(initHeaders[1]) ELSE NoHeaders
      sets == CredentialHeader(url, client, authToken)
              \o EcosystemHeaders(ecosystem) \o platform
  IN [headers |-> SetAll(IF headers.def THEN headers ELSE EmptyHeaders, sets),
      added |-> Names(sets)]

\* lines 27-55: the headers given to fetch, and the names the wrapper set
ComposeHeaders(isFirstParty, url, initHeaders, client, ecosystem, authToken, platform) ==
  LET headers == IF initHeaders # Undefined THEN NewHeaders(initHeaders[1]) ELSE NoHeaders
  IN IF isFirstParty
       THEN LET sets == CredentialHeader(url, client, authToken)
                        \o EcosystemHeaders(ecosystem) \o platform
            IN [headers |-> SetAll(IF headers.def THEN headers ELSE EmptyHeaders, sets),
                added |-> Names(sets)]
       ELSE [headers |-> headers, added |-> {}]

(***************************************************************************)
(* fetchWithHeaders: the timeout (lines 11, 24, 57-64)                     *)
(***************************************************************************)
DEFAULT_REQUEST_TIMEOUT == 60000

\* the default replaces every falsy value (|| in place of the default)
RequestTimeoutMs_OrDefault(timeoutOpt) ==
  IF timeoutOpt = Undefined \/ timeoutOpt[1] = 0
    THEN DEFAULT_REQUEST_TIMEOUT ELSE timeoutOpt[1]

\* line 24: the destructuring default applies to undefined only
RequestTimeoutMs(timeoutOpt) ==
  IF timeoutOpt = Undefined THEN DEFAULT_REQUEST_TIMEOUT ELSE timeoutOpt[1]

\* line 59: if (requestTimeoutMs)
TimeoutEnabled(timeoutOpt) == RequestTimeoutMs(timeoutOpt) # 0

\* setTimeout is given no delay
TimerDelay_None(timeoutOpt) == 0

\* line 63: the delay given to setTimeout
TimerDelay(timeoutOpt) == RequestTimeoutMs(timeoutOpt)

\* the clock stops here: no timer is scheduled to fire later
MaxNow == 60000

(***************************************************************************)
(* The calls of fetchWithHeaders.                                          *)
(*   pc: idle -> pending (fetch issued) -> finally (the transport's        *)
(*       promise settled, the finally callback is due) -> returning (the   *)
(*       callback ran) -> settled (the returned promise settled)           *)
(***************************************************************************)
Reqs == {"r1", "r2"}

NoClient == [secretKey |-> Undefined, clientId |-> Undefined]

Idle ==
  [pc |-> "idle", url |-> "", initHeaders |-> Undefined, timeoutOpt |-> Undefined,
   client |-> NoClient, ecosystem |-> Undefined, authToken |-> Undefined,
   firstParty |-> FALSE, headers |-> NoHeaders, added |-> {},
   controller |-> FALSE, signal |-> FALSE, aborted |-> FALSE,
   timer |-> "none", deadline |-> 0, issuedAt |-> 0, fetches |-> 0,
   transport |-> "none", result |-> "", outcome |-> <<>>]

NoRet == [url |-> "", value |-> FALSE, parsed |-> FALSE, evicted |-> {}]

\* what a call of isThirdwebUrl(url) on cache c did
Observed(c, url, call) ==
  [url |-> url, value |-> call.value, parsed |-> call.parsed,
   evicted |-> Keys(c) \ Keys(call.cache)]

\* the cached URLs, least recently classified first, after url was classified
Touch(order, c, url) ==
  SelectSeq(Append(SelectSeq(order, LAMBDA k : k # url), url), LAMBDA k : LruHas(c, k))

\* isThirdwebUrl(url), called from anywhere
Classify(url) ==
  LET call == isThirdwebUrl(cache, env.NODE_ENV, url)
  IN /\ cache' = call.cache
     /\ ret' = Observed(cache, url, call)
     /\ recent' = Touch(recent, call.cache, url)
     /\ UNCHANGED <<env, TW_AUTH_TOKEN, previousPlatform, req, now>>

\* the hosting application sets or removes globalThis.TW_AUTH_TOKEN
SetAuthToken(g) ==
  /\ TW_AUTH_TOKEN # g
  /\ TW_AUTH_TOKEN' = g
  /\ UNCHANGED <<env, cache, previousPlatform, req, now, ret, recent>>

\* fetchWithHeaders(url, init) of getClientFetch(client, ecosystem), up to
\* and including the call of fetch (lines 24-69)
FetchWithHeaders(r, url, initHeaders, timeoutOpt, client, ecosystem) ==
  LET call == isThirdwebUrl(cache, env.NODE_ENV, url)
      authToken == getTWAuthToken(TW_AUTH_TOKEN)
      platform == getPlatformHeaders(previousPlatform, env)
      composed == ComposeHeaders(call.value, url, initHeaders, client, ecosystem,
                                 authToken, platform.pairs)
      timed == TimeoutEnabled(timeoutOpt)
  IN /\ req[r].pc = "idle"
     /\ IF HeadersInitThrows(initHeaders)
          THEN \* the async function rejects its promise at line 27
               /\ req' = [req EXCEPT ![r] =
                    [Idle EXCEPT !.pc = "returning", !.url = url,
                                 !.initHeaders = initHeaders,
                                 !.timeoutOpt = timeoutOpt, !.client = client,
                                 !.ecosystem = ecosystem, !.issuedAt = now,
                                 !.result = "TypeError"]]
               /\ UNCHANGED <<cache, ret, recent, previousPlatform>>
          ELSE /\ timed => now + TimerDelay(timeoutOpt) <= MaxNow
               /\ cache' = call.cache
               /\ ret' = Observed(cache, url, call)
               /\ recent' = Touch(recent, call.cache, url)
               /\ previousPlatform' =
                    IF call.value THEN platform.previousPlatform ELSE previousPlatform
               /\ req' = [req EXCEPT ![r] =
                    [pc |-> "pending", url |-> url, initHeaders |-> initHeaders,
                     timeoutOpt |-> timeoutOpt, client |-> client, ecosystem |-> ecosystem,
                     authToken |-> IF call.value THEN authToken ELSE Undefined,
                     firstParty |-> call.value,
                     headers |-> composed.headers, added |-> composed.added,
                     controller |-> timed, signal |-> timed, aborted |-> FALSE,
                     timer |-> IF timed THEN "armed" ELSE "none",
                     deadline |-> IF timed THEN now + TimerDelay(timeoutOpt) ELSE 0,
                     issuedAt |-> now, fetches |-> 1,
                     transport |-> "pending", result |-> "", outcome |-> <<>>]]
     /\ UNCHANGED <<env, TW_AUTH_TOKEN, now>>

\* time passes, up to the moment some armed timer is due
Tick ==
  /\ \E r \in Reqs :
       /\ req[r].timer = "armed"
       /\ req[r].deadline > now
       /\ now' = req[r].deadline
  /\ UNCHANGED <<env, TW_AUTH_TOKEN, cache, previousPlatform, req, ret, recent>>

\* one controller serves every call: the timer of r aborts them all
TimerFire_Shared(r) ==
  /\ req[r].timer = "armed"
  /\ now >= req[r].deadline
  /\ req' = [q \in Reqs |->
       IF q = r \/ req[q].controller
         THEN IF req[q].pc = "pending"
                THEN [req[q] EXCEPT !.timer = IF q = r THEN "fired" ELSE @,
                                    !.aborted = TRUE, !.pc = "finally",
                                    !.transport = "rejected", !.result = "AbortError"]
                ELSE [req[q] EXCEPT !.timer = IF q = r THEN "fired" ELSE @,
                                    !.aborted = TRUE]
         ELSE req[q]]
  /\ UNCHANGED <<env, TW_AUTH_TOKEN, cache, previousPlatform, now, ret, recent>>

\* lines 61-63: the timer of call r fires and aborts its controller; a fetch
\* that is still pending rejects with an AbortError
TimerFire(r) ==
  /\ req[r].timer = "armed"
  /\ now >= req[r].deadline
  /\ req' = [req EXCEPT ![r] =
       IF req[r].pc = "pending"
         THEN [@ EXCEPT !.timer = "fired", !.aborted = TRUE, !.pc = "finally",
                        !.transport = "rejected", !.result = "AbortError"]
         ELSE [@ EXCEPT !.timer = "fired", !.aborted = TRUE]]
  /\ UNCHANGED <<env, TW_AUTH_TOKEN, cache, previousPlatform, now, ret, recent>>

Statuses == {"200", "500"}
Failures == {"TypeError"}

\* the transport answers with a response
TransportResolve(r, status) ==
  /\ req[r].pc = "pending"
  /\ req' = [req EXCEPT ![r] =
       [@ EXCEPT !.pc = "finally", !.transport = "resolved", !.result = status]]
  /\ UNCHANGED <<env, TW_AUTH_TOKEN, cache, previousPlatform, now, ret, recent>>

\* the transport fails on its own
TransportReject(r, failure) ==
  /\ req[r].pc = "pending"
  /\ req' = [req EXCEPT ![r] =
       [@ EXCEPT !.pc = "finally", !.transport = "rejected", !.result = failure]]
  /\ UNCHANGED <<env, TW_AUTH_TOKEN, cache, previousPlatform, now, ret, recent>>

\* the callback leaves the timer alone
Finally_NoClear(r) ==
  /\ req[r].pc = "finally"
  /\ req' = [req EXCEPT ![r] = [@ EXCEPT !.pc = "returning"]]
  /\ UNCHANGED <<env, TW_AUTH_TOKEN, cache, previousPlatform, now, ret, recent>>

\* lines 70-74: the finally callback
Finally(r) ==
  /\ req[r].pc = "finally"
  /\ req' = [req EXCEPT ![r] =
       [@ EXCEPT !.pc = "returning",
                 !.timer = IF req[r].timer = "armed" THEN "cleared" ELSE @]]
  /\ UNCHANGED <<env, TW_AUTH_TOKEN, cache, previousPlatform, now, ret, recent>>

\* a failed request is issued a second time
Settle_Retry(r) ==
  /\ req[r].pc = "returning"
  /\ req' = [req EXCEPT ![r] =
       IF req[r].transport = "rejected" /\ ~req[r].aborted /\ req[r].fetches = 1
         THEN [@ EXCEPT !.pc = "pending", !.fetches = 2,
                        !.transport = "pending", !.result = ""]
         ELSE [@ EXCEPT !.pc = "settled",
                        !.outcome = <<req[r].transport, req[r].result>>]]
  /\ UNCHANGED <<env, TW_AUTH_TOKEN, cache, previousPlatform, now, ret, recent>>

\* the promise fetchWithHeaders returned settles as the transport's did, or
\* as line 27 threw
Settle(r) ==
  /\ req[r].pc = "returning"
  /\ req' = [req EXCEPT ![r] =
       [@ EXCEPT !.pc = "settled", !.outcome = <<req[r].transport, req[r].result>>]]
  /\ UNCHANGED <<env, TW_AUTH_TOKEN, cache, previousPlatform, now, ret, recent>>

\* the caller lets go of the settled promise: r can name a new call
Release(r) ==
  /\ req[r].pc = "settled"
  /\ req' = [req EXCEPT ![r] = Idle]
  /\ UNCHANGED <<env, TW_AUTH_TOKEN, cache, previousPlatform, now, ret, recent>>

(***************************************************************************)
(* Inputs                                                                  *)
(***************************************************************************)
Clients ==
  { NoClient,
    [secretKey |-> Some("sk"), clientId |-> Undefined],
    [secretKey |-> Undefined,  clientId |-> Some("cid")],
    [secretKey |-> Some("sk"), clientId |-> Some("cid")],
    [secretKey |-> Some(""),   clientId |-> Some("cid")] }

Ecosystems ==
  { Undefined,
    Some([id |-> "ecosystem.acme", partnerId |-> Undefined]),
    Some([id |-> "ecosystem.acme", partnerId |-> Some("partner-1")]) }

\* init.headers: absent, or the pairs of a HeadersInit
InitHeaders ==
  { Undefined,
    Some(<< >>),
    Some(<< <<"X-Custom", "c1">> >>),
    Some(<< <<"X-Custom", "c1">>, <<"x-custom", "c2">> >>),
    Some(<< <<"Authorization", "c1">> >>),
    Some(<< <<"X-Client-Id", "c1">>, <<"X-SDK-Name", "c2">> >>) }

\* init.requestTimeoutMs: absent, 0, or a duration
Timeouts == {Undefined, Some(0), Some(30000)}

Init ==
  /\ env \in Envs
  /\ TW_AUTH_TOKEN = NoGlobal
  /\ cache = << >>
  /\ previousPlatform = Undefined
  /\ req = [r \in Reqs |-> Idle]
  /\ now = 0
  /\ ret = NoRet
  /\ recent = << >>

(***************************************************************************)
(* The classifier alone: isThirdwebUrl called on any of the URLs.          *)
(***************************************************************************)
ClassifyUrls ==
  {U_API, U_UPPER, U_IPFS, U_DEV, U_DEV2, U_APEX, U_EVIL, U_OTHER, U_LOCAL, U_BAD}

NextClassify == \E url \in ClassifyUrls : Classify(url)

SpecClassify == Init /\ [][NextClassify]_vars

(***************************************************************************)
(* One call at a time, with every kind of client, ecosystem, token and     *)
(* caller headers: what the wrapper puts on the request.  The calls pass   *)
(* requestTimeoutMs: 0; the timer is the subject of SpecTimers.            *)
(***************************************************************************)
HeaderUrls == {U_API, U_PAY, U_PAYX}

\* the runtime with an Application id: every platform header is sent
InitCalls ==
  /\ Init
  /\ env.bundleId # Undefined

Next ==
  \/ \E url \in HeaderUrls, h \in InitHeaders, t \in {Some(0)},
        client \in Clients, ecosystem \in Ecosystems :
        FetchWithHeaders("r1", url, h, t, client, ecosystem)
  \/ \E g \in Globals : SetAuthToken(g)
  \/ TransportResolve("r1", "200")
  \/ TransportReject("r1", "TypeError")
  \/ Finally("r1")
  \/ Settle("r1")
  \/ Release("r1")

Spec == InitCalls /\ [][Next]_vars

(***************************************************************************)
(* Concurrent calls of one client, with every timeout option and every     *)
(* behaviour of the transport.                                             *)
(***************************************************************************)
TimerUrls == {U_API, U_EX}
TimerClient == [secretKey |-> Undefined, clientId |-> Some("cid")]

InitTimers ==
  /\ Init
  /\ env.NODE_ENV = "production"

NextTimers ==
  \/ \E r \in Reqs, url \in TimerUrls, t \in Timeouts :
        FetchWithHeaders(r, url, Undefined, t, TimerClient, Undefined)
  \/ Tick
  \/ \E r \in Reqs : TimerFire(r)
  \/ \E r \in Reqs, status \in Statuses : TransportResolve(r, status)
  \/ \E r \in Reqs, failure \in Failures : TransportReject(r, failure)
  \/ \E r \in Reqs : Finally(r)
  \/ \E r \in Reqs : Settle(r)
  \/ \E r \in Reqs : Release(r)

SpecTimers == InitTimers /\ [][NextTimers]_vars

(***************************************************************************)
(* Calls that fail: a malformed URL, a malformed init.headers, a transport *)
(* failure, the timeout                                                    *)
(***************************************************************************)
OutcomeUrls == {U_API, U_BAD}

\* init.headers: absent, or a HeadersInit with a name that is no token
OutcomeHeaders == {Undefined, Some(<< <<"bad name", "c1">> >>)}

NextOutcomes ==
  \/ \E r \in Reqs, url \in OutcomeUrls, h \in OutcomeHeaders, t \in Timeouts :
        FetchWithHeaders(r, url, h, t, TimerClient, Undefined)
  \/ Tick
  \/ \E r \in Reqs : TimerFire(r)
  \/ \E r \in Reqs, status \in Statuses : TransportResolve(r, status)
  \/ \E r \in Reqs, failure \in Failures : TransportReject(r, failure)
  \/ \E r \in Reqs : Finally(r)
  \/ \E r \in Reqs : Settle(r)
  \/ \E r \in Reqs : Release(r)

SpecOutcomes == InitTimers /\ [][NextOutcomes]_vars

\* time passes, and the event loop runs the timers that are due and the
\* promise callbacks that are queued; nothing makes the transport answer
FairTimers ==
  /\ WF_vars(Tick)
  /\ \A r \in Reqs : WF_vars(TimerFire(r)) /\ WF_vars(Finally(r)) /\ WF_vars(Settle(r))

FairSpecTimers == SpecTimers /\ FairTimers

(***************************************************************************)
(* What the wrapper puts on a request                                      *)
(***************************************************************************)
CredentialNames == {"authorization", "x-secret-key", "x-client-id"}

WrapperNames ==
  CredentialNames \cup
  {"x-ecosystem-id", "x-ecosystem-partner-id", "x-sdk-platform", "x-sdk-version",
   "x-sdk-os", "x-sdk-name", "x-bundle-id"}

\* call r has handed a request to the transport
Issued(r) == req[r].fetches > 0

Sent(r) == req[r].headers.kv

\* the headers the caller of r supplied, as a Headers object holds them
CallerHeaders(r) ==
  IF req[r].initHeaders = Undefined THEN NoHeaders ELSE NewHeaders(req[r].initHeaders[1])

\* the caller of r supplied a header of this (lower-case) name
CallerSupplied(r, name) ==
  /\ req[r].initHeaders # Undefined
  /\ \E i \in 1..Len(req[r].initHeaders[1]) :
        toLowerCase(Chars[req[r].initHeaders[1][i][1]]) = Chars[name]

\* header name of the request of r is the caller's, value included
FromCaller(r, name) ==
  /\ CallerSupplied(r, name)
  /\ Sent(r)[name] = CallerHeaders(r).kv[name]

\* the external bearer token was there (a non-empty string) when r was called
TokenPresent(r) == TruthyStr(req[r].authToken)

\* C1: a request to a URL that is not first-party carries exactly the
\* caller-supplied headers (none at all when the caller gave none); the
\* wrapper sets no credential, ecosystem or platform header on it.
C1_NonFirstPartyPassThrough ==
  \A r \in Reqs :
    (Issued(r) /\ ~req[r].firstParty) =>
      /\ req[r].added = {}
      /\ req[r].headers.def = (req[r].initHeaders # Undefined)
      /\ req[r].headers = CallerHeaders(r)
      /\ \A n \in DOMAIN Sent(r) : CallerSupplied(r, n)
      /\ \A n \in WrapperNames \cap DOMAIN Sent(r) : FromCaller(r, n)

C1_Witness ==
  /\ Issued("r1")
  /\ req["r1"].url = U_PAYX
  /\ ~req["r1"].firstParty
  /\ TW_AUTH_TOKEN.value = "tok"
  /\ TruthyStr(req["r1"].client.secretKey)
  /\ req["r1"].ecosystem # Undefined
  /\ Sent("r1") = ("x-custom" :> "c1, c2")

\* the fallback of the credential to the client's keys
KeyFallback(r) ==
  IF TruthyStr(req[r].client.secretKey)
    THEN /\ "x-secret-key" \in DOMAIN Sent(r)
         /\ Sent(r)["x-secret-key"] = req[r].client.secretKey[1]
  ELSE IF TruthyStr(req[r].client.clientId)
    THEN /\ "x-client-id" \in DOMAIN Sent(r)
         /\ Sent(r)["x-client-id"] = req[r].client.clientId[1]
  ELSE TRUE

\* C2 as stated: no request to a pay. host carries an authorization header,
\* and its credential is x-secret-key, else x-client-id.
C2_AsStated ==
  \A r \in Reqs :
    (Issued(r) /\ isPayUrl(req[r].url)) =>
      /\ "authorization" \notin DOMAIN Sent(r)
      /\ KeyFallback(r)

\* C2: on a first-party request to a pay. host the wrapper never sets the
\* authorization header, token or no token: the request carries one only if
\* the caller supplied it; the credential the wrapper sets is x-secret-key
\* if the client has a secretKey, else x-client-id if it has a clientId.
C2_PayNeverBearer ==
  \A r \in Reqs :
    (Issued(r) /\ req[r].firstParty /\ isPayUrl(req[r].url)) =>
      /\ "authorization" \notin req[r].added
      /\ "authorization" \in DOMAIN Sent(r) => FromCaller(r, "authorization")
      /\ KeyFallback(r)
      /\ req[r].added \cap CredentialNames \subseteq {"x-secret-key", "x-client-id"}

C2_Witness ==
  /\ Issued("r1")
  /\ req["r1"].url = U_PAY
  /\ req["r1"].firstParty
  /\ TokenPresent("r1")
  /\ "authorization" \notin DOMAIN Sent("r1")
  /\ "x-secret-key" \in DOMAIN Sent("r1")

OnlySecretKey(r) ==
  /\ TruthyStr(req[r].client.secretKey)
  /\ ~TruthyStr(req[r].client.clientId)
  /\ ~TokenPresent(r)

\* C3 as stated: a first-party request carries at most one of the three
\* credential headers, whatever the caller supplied.
C3_AsStated ==
  \A r \in Reqs :
    (Issued(r) /\ req[r].firstParty) =>
      /\ Cardinality(DOMAIN Sent(r) \cap CredentialNames) <= 1
      /\ OnlySecretKey(r) => DOMAIN Sent(r) \cap CredentialNames = {"x-secret-key"}

\* C3: on a first-party request the wrapper sets at most one of the three
\* credential headers; any other credential header on the request is one
\* the caller supplied.  With only secretKey and no bearer token the wrapper
\* sets x-secret-key, and neither x-client-id nor authorization.
C3_WrapperSetsAtMostOneCredential ==
  \A r \in Reqs :
    (Issued(r) /\ req[r].firstParty) =>
      /\ Cardinality(req[r].added \cap CredentialNames) <= 1
      /\ \A n \in (DOMAIN Sent(r) \cap CredentialNames) \ req[r].added : FromCaller(r, n)
      /\ OnlySecretKey(r) =>
           /\ req[r].added \cap CredentialNames = {"x-secret-key"}
           /\ Sent(r)["x-secret-key"] = req[r].client.secretKey[1]

C3_Witness ==
  /\ Issued("r1")
  /\ req["r1"].firstParty
  /\ OnlySecretKey("r1")
  /\ DOMAIN Sent("r1") \cap CredentialNames = {"x-secret-key"}

\* the credential header the priority order gives call r
Expected(r) ==
  IF TokenPresent(r) /\ ~isPayUrl(req[r].url) THEN "authorization"
  ELSE IF TruthyStr(req[r].client.secretKey) THEN "x-secret-key"
  ELSE IF TruthyStr(req[r].client.clientId) THEN "x-client-id"
  ELSE "none"

ExpectedValueSent(r) ==
  CASE Expected(r) = "authorization" ->
         Chars[Sent(r)["authorization"]] = Chars["Bearer "] \o Chars[req[r].authToken[1]]
    [] Expected(r) = "x-secret-key" -> Sent(r)["x-secret-key"] = req[r].client.secretKey[1]
    [] Expected(r) = "x-client-id" -> Sent(r)["x-client-id"] = req[r].client.clientId[1]
    [] OTHER -> TRUE

\* C4 as stated: on every first-party request the wrapper sets exactly one
\* credential header, the one of highest priority.
C4_AsStated ==
  \A r \in Reqs :
    (Issued(r) /\ req[r].firstParty) =>
      /\ Cardinality(req[r].added \cap CredentialNames) = 1
      /\ req[r].added \cap CredentialNames = {Expected(r)}
      /\ ExpectedValueSent(r)

\* C4: on a first-party request the wrapper sets the credential header of
\* highest applicable priority and no other: authorization = "Bearer <token>"
\* with a bearer token and a URL that is no pay endpoint, else x-secret-key
\* with a secretKey, else x-client-id with a clientId; it sets none when the
\* client has neither key and no bearer token applies.
C4_CredentialPriority ==
  \A r \in Reqs :
    (Issued(r) /\ req[r].firstParty) =>
      /\ req[r].added \cap CredentialNames = {Expected(r)} \ {"none"}
      /\ ExpectedValueSent(r)

C4_Witness ==
  /\ Issued("r1")
  /\ req["r1"].url = U_API
  /\ TokenPresent("r1")
  /\ TruthyStr(req["r1"].client.secretKey)
  /\ TruthyStr(req["r1"].client.clientId)
  /\ Sent("r1")["authorization"] = "Bearer tok"
  /\ req["r1"].added \cap CredentialNames = {"authorization"}

(***************************************************************************)
(* The timeout                                                             *)
(***************************************************************************)
\* C5: once the finally callback of a call has run, and so whenever the
\* returned promise has settled (on a response, a transport failure or the
\* abort), the timer of the call is no longer armed: it was cleared or had
\* fired.
C5_TimerClearedBeforeSettle ==
  \A r \in Reqs :
    (Issued(r) /\ req[r].pc \in {"returning", "settled"}) =>
      /\ req[r].timer # "armed"
      /\ TimeoutEnabled(req[r].timeoutOpt) => req[r].timer \in {"cleared", "fired"}

C5_Witness ==
  /\ req["r1"].pc = "settled"
  /\ req["r1"].outcome = <<"resolved", "200">>
  /\ req["r1"].timer = "cleared"
  /\ req["r2"].pc = "settled"
  /\ req["r2"].outcome = <<"rejected", "AbortError">>
  /\ req["r2"].timer = "fired"

\* the transport of r answered or failed by itself
OwnOutcome(r) == req[r].outcome[2] \in Statuses \cup Failures

\* C6: a call with a truthy requestTimeoutMs is aborted no earlier than
\* requestTimeoutMs after it was made, and its promise settles: with the
\* transport's AbortError, the signal aborted, unless the transport settled
\* by itself first.  A transport that never settles by itself leaves the
\* AbortError as the only outcome.
C6_TimeoutAborts ==
  /\ [](\A r \in Reqs :
          req[r].aborted =>
            /\ TimeoutEnabled(req[r].timeoutOpt)
            /\ now >= req[r].issuedAt + RequestTimeoutMs(req[r].timeoutOpt))
  /\ [](\A r \in Reqs :
          (req[r].pc = "settled" /\ ~OwnOutcome(r)) =>
            /\ req[r].outcome = <<"rejected", "AbortError">>
            /\ req[r].aborted
            /\ req[r].timer = "fired")
  /\ \A r \in Reqs :
       (req[r].pc = "pending" /\ TimeoutEnabled(req[r].timeoutOpt)) ~> (req[r].pc = "settled")

C6_Witness ==
  /\ req["r1"].pc = "settled"
  /\ req["r1"].timeoutOpt = Some(30000)
  /\ req["r1"].outcome = <<"rejected", "AbortError">>
  /\ req["r1"].aborted
  /\ now = 30000

\* C7: requestTimeoutMs defaults to 60000; with requestTimeoutMs 0 no
\* AbortController is created, no timer is scheduled, fetch gets no signal
\* and the wrapper never aborts the request.
C7_DefaultAndDisabledTimeout ==
  \A r \in Reqs :
    Issued(r) =>
      /\ req[r].timeoutOpt = Undefined =>
           /\ req[r].controller /\ req[r].signal
           /\ req[r].timer # "none"
           /\ req[r].deadline = req[r].issuedAt + 60000
      /\ req[r].timeoutOpt = Some(0) =>
           /\ ~req[r].controller /\ ~req[r].signal
           /\ req[r].timer = "none"
           /\ ~req[r].aborted
           /\ req[r].result # "AbortError"

C7_Witness ==
  /\ req["r1"].pc = "settled"
  /\ req["r1"].timeoutOpt = Some(0)
  /\ req["r1"].timer = "none"
  /\ req["r2"].pc = "pending"
  /\ req["r2"].timeoutOpt = Undefined
  /\ req["r2"].timer = "armed"
  /\ req["r2"].deadline = 60000

(***************************************************************************)
(* The classifier                                                          *)
(***************************************************************************)
\* a step in which isThirdwebUrl was called
Called == ret' # ret \/ cache' # cache

\* C8: every call leaves its verdict in the cache under the URL string it
\* was given (a malformed URL's FALSE included); a call that finds the
\* string cached returns the cached verdict and does not parse; and the
\* verdict of an entry never changes while the entry is cached.
C8_VerdictCached ==
  /\ [](ret.url # "" =>
          /\ LruHas(cache, ret.url)
          /\ LruValue(cache, ret.url) = ret.value)
  /\ [][ /\ (Called /\ LruHas(cache, ret'.url)) =>
              /\ ret'.value = LruValue(cache, ret'.url)
              /\ ~ret'.parsed
         /\ (Called /\ ~LruHas(cache, ret'.url)) => ret'.parsed
         /\ \A k \in Keys(cache) \cap Keys(cache') :
              LruValue(cache', k) = LruValue(cache, k) ]_vars

C8_Witness ==
  /\ ret.url = U_BAD
  /\ ~ret.parsed
  /\ ~ret.value
  /\ LruHas(cache, U_API)
  /\ LruValue(cache, U_API)

\* hostname ends with suffix: some tail of it is the suffix
HasSuffix(hostname, suffix) ==
  \E i \in 0..Len(Chars[hostname]) :
    SubSeq(Chars[hostname], i + 1, Len(Chars[hostname])) = Chars[suffix]

\* the verdict the classification rules give a URL
Verdict(url) ==
  IF url \notin DOMAIN Hostname THEN FALSE
  ELSE IF env.NODE_ENV \in {"development", "test"} /\ Hostname[url] = "localhost" THEN TRUE
  ELSE \/ HasSuffix(Hostname[url], ".thirdweb.com")
       \/ HasSuffix(Hostname[url], ".ipfscdn.io")
       \/ HasSuffix(Hostname[url], ".thirdweb.dev")
       \/ HasSuffix(Hostname[url], ".thirdweb-dev.com")

\* C9: on a cache miss isThirdwebUrl returns FALSE for a URL that does not
\* parse, TRUE for the hostname localhost in development and test, and
\* otherwise TRUE exactly for the hostnames that end with .thirdweb.com,
\* .ipfscdn.io, .thirdweb.dev or .thirdweb-dev.com: api.thirdweb.com is
\* first-party, otherthirdweb.com and evilthirdweb.com are not.
C9_ClassificationRules ==
  (ret.url # "" /\ ret.parsed) =>
    /\ ret.value = Verdict(ret.url)
    /\ ret.url \in {U_API, U_UPPER, U_PAY, U_IPFS, U_DEV, U_DEV2} => ret.value
    /\ ret.url \in {U_OTHER, U_EVIL, U_APEX, U_EX, U_PAYX, U_BAD} => ~ret.value
    /\ ret.url = U_LOCAL => (ret.value <=> env.NODE_ENV \in {"development", "test"})

C9_Witness ==
  /\ ret = [url |-> U_EVIL, value |-> FALSE, parsed |-> TRUE, evicted |-> {U_LOCAL}]
  /\ LruHas(cache, U_API)
  /\ LruValue(cache, U_API)
  /\ env.NODE_ENV = "test"

\* C10: the cache never holds more than its capacity; a call that inserts a
\* new URL into a full cache evicts exactly one entry, the one whose URL
\* was classified least recently, and no other call evicts anything.
C10_LruEviction ==
  /\ [](Len(cache) <= CacheCapacity /\ Cardinality(Keys(cache)) = Len(cache))
  /\ [][ Called =>
           IF ~LruHas(cache, ret'.url) /\ Len(cache) = CacheCapacity
             THEN /\ Keys(cache) \ Keys(cache') = {recent[1]}
                  /\ Keys(cache') \ Keys(cache) = {ret'.url}
                  /\ ret'.evicted = {recent[1]}
             ELSE /\ Keys(cache) \subseteq Keys(cache')
                  /\ ret'.evicted = {} ]_vars

C10_Witness ==
  /\ Len(cache) = CacheCapacity
  /\ ret.url = U_IPFS
  /\ ret.evicted = {U_EVIL}
  /\ LruHas(cache, U_API)
  /\ recent[1] = U_API

(***************************************************************************)
(* Concurrent calls                                                        *)
(***************************************************************************)
\* the step leaves every call but r as it was
OthersUntouched(r) == \A q \in Reqs \ {r} : req'[q] = req[q]

\* C11: with calls in flight together, a call is aborted only by its own
\* timer, when that timer is due, and the step touches no other call; a
\* timer is disarmed only by its own firing or by the finally callback of
\* its own call, and the step leaves every other call, armed timers
\* included, as it was.
C11_TimersAreLocal ==
  /\ [](\A r \in Reqs : req[r].aborted => req[r].controller /\ req[r].timer = "fired")
  /\ [][ \A r \in Reqs :
           /\ (~req[r].aborted /\ req'[r].aborted) =>
                /\ req[r].timer = "armed" /\ req'[r].timer = "fired"
                /\ now >= req[r].deadline
                /\ OthersUntouched(r)
           /\ (req[r].timer = "armed" /\ req'[r].timer # "armed") =>
                /\ \/ req'[r].timer = "fired" /\ req'[r].aborted
                   \/ req'[r].timer = "cleared" /\ req[r].pc = "finally"
                                                /\ req'[r].pc = "returning"
                /\ OthersUntouched(r) ]_vars

C11_Witness ==
  /\ req["r1"].pc = "settled"
  /\ req["r1"].outcome = <<"rejected", "AbortError">>
  /\ req["r1"].timer = "fired"
  /\ req["r1"].issuedAt = 0
  /\ req["r2"].pc = "pending"
  /\ req["r2"].issuedAt = 0
  /\ req["r2"].timer = "armed"
  /\ ~req["r2"].aborted
  /\ now = 30000

(***************************************************************************)
(* Outcomes                                                                *)
(***************************************************************************)
\* new URL(url) throws
Malformed(url) == ~ParseURL(url).ok

\* call r is under way or has settled
Began(r) == req[r].pc # "idle"

\* what the transport can yield by itself
TransportOutcomes ==
  ({"resolved"} \X Statuses) \cup ({"rejected"} \X Failures)

\* the promise of r settled as its one transport request did
DeliveredUnchanged(r) ==
  /\ req[r].fetches = 1
  /\ req[r].outcome = <<req[r].transport, req[r].result>>
  /\ \/ req[r].outcome \in TransportOutcomes
     \/ /\ req[r].outcome = <<"rejected", "AbortError">>
        /\ req[r].aborted
        /\ req[r].timer = "fired"
        /\ TimeoutEnabled(req[r].timeoutOpt)

====
